---- MODULE Spec2Model ----
(***************************************************************************)
(* A model of lexical_parser.py: the ordered rule table TOKEN_SPEC, the    *)
(* master alternation MASTER_RE built from it, and tokenize(), the loop    *)
(* over MASTER_RE.finditer(text) that sorts every match into tokens,       *)
(* errors or nothing.                                                      *)
(*                                                                         *)
(* Text, lexemes and messages are Python strings: sequences of Unicode     *)
(* code points.  Str("...") is the string an ASCII literal stands for.     *)
(* Scan positions are 0-based offsets as in Python (m.start(), m.end());   *)
(* Ch(t, i) is 1-based.                                                    *)
(***************************************************************************)
EXTENDS Naturals, Sequences, FiniteSets

\* -------------------------------------------------------- characters

\* The ASCII characters U+0020 to U+005F and U+0061 to U+007E, in order.
PrintableLow == " !\"#$%&'()*+,-./0123456789:;<=>?@ABCDEFGHIJKLMNOPQRSTUVWXYZ[\\]^_"
PrintableHigh == "abcdefghijklmnopqrstuvwxyz{|}~"

\* The 1-based place of the one-character string c in s, 0 when not there.
Place(s, c) == IF \E i \in 1..Len(s) : SubSeq(s, i, i) = c
               THEN CHOOSE i \in 1..Len(s) : SubSeq(s, i, i) = c
               ELSE 0

\* ord(c) of an ASCII character written as a one-character literal.
Ord(c) == IF c = "\n" THEN 10
          ELSE IF c = "\t" THEN 9
          ELSE IF Place(PrintableLow, c) > 0 THEN 31 + Place(PrintableLow, c)
          ELSE 96 + Place(PrintableHigh, c)

\* The Python string an ASCII literal stands for.
Str(s) == [i \in 1..Len(s) |-> Ord(SubSeq(s, i, i))]

LineFeed == Ord("\n")
Backslash == Ord("\\")
SingleQuote == Ord("'")
DoubleQuote == Ord("\"")
RParen == Ord(")")

\* ------------------------------------------------------------ bounds

\* Longest input text explored.
MaxLen == 4

\* Most characters outside ASCII in one input text.
MaxForeign == 1

\* The characters inputs are drawn from: the double quote (a string literal
\* when paired, a character no rule knows when not), ')', two operator
\* characters, a blank, the line feed, a digit, two letters (spelling the
\* keyword "if" and the string prefix "f") and, outside ASCII, U+00E9 (a
\* letter: a \w character that starts neither an identifier nor a number)
\* and U+0663 (an Arabic-Indic digit: a \d character).
Foreign == {233, 1635}

Alphabet == {Ord("\""), Ord(")"), Ord("="), Ord("-"), Ord(" "), Ord("\n"),
             Ord("1"), Ord("i"), Ord("f")} \cup Foreign

RECURSIVE Texts(_)
Texts(n) == IF n = 0 THEN {<<>>}
            ELSE LET S == Texts(n - 1)
                 IN  S \cup {Append(s, c) : s \in {x \in S : Len(x) = n - 1}, c \in Alphabet}

Inputs == {t \in Texts(MaxLen) :
             Cardinality({i \in 1..Len(t) : t[i] \in Foreign}) <= MaxForeign}

\* ------------------------------------------------- character classes

Ch(t, i) == t[i]

\* The code points lo..hi of each pair <<lo, hi>> of R.
Spanned(R) == UNION {r[1]..r[2] : r \in R}

\* \d on a str pattern: the decimal digits of Unicode (category Nd).
DigitRanges == {
    <<48, 57>>, <<1632, 1641>>, <<1776, 1785>>, <<1984, 1993>>,
    <<2406, 2415>>, <<2534, 2543>>, <<2662, 2671>>, <<2790, 2799>>,
    <<2918, 2927>>, <<3046, 3055>>, <<3174, 3183>>, <<3302, 3311>>,
    <<3430, 3439>>, <<3558, 3567>>, <<3664, 3673>>, <<3792, 3801>>,
    <<3872, 3881>>, <<4160, 4169>>, <<4240, 4249>>, <<6112, 6121>>,
    <<6160, 6169>>, <<6470, 6479>>, <<6608, 6617>>, <<6784, 6793>>,
    <<6800, 6809>>, <<6992, 7001>>, <<7088, 7097>>, <<7232, 7241>>,
    <<7248, 7257>>, <<42528, 42537>>, <<43216, 43225>>, <<43264, 43273>>,
    <<43472, 43481>>, <<43504, 43513>>, <<43600, 43609>>, <<44016, 44025>>,
    <<65296, 65305>>, <<66720, 66729>>, <<68912, 68921>>, <<69734, 69743>>,
    <<69872, 69881>>, <<69942, 69951>>, <<70096, 70105>>, <<70384, 70393>>,
    <<70736, 70745>>, <<70864, 70873>>, <<71248, 71257>>, <<71360, 71369>>,
    <<71472, 71481>>, <<71904, 71913>>, <<72016, 72025>>, <<72784, 72793>>,
    <<73040, 73049>>, <<73120, 73129>>, <<92768, 92777>>, <<92864, 92873>>,
    <<93008, 93017>>, <<120782, 120831>>, <<123200, 123209>>,
    <<123632, 123641>>, <<125264, 125273>>, <<130032, 130041>>}

Digits == Spanned(DigitRanges)

\* [A-Za-z]
Letters == (Ord("A")..Ord("Z")) \cup (Ord("a")..Ord("z"))

\* \w on a str pattern: '_' and the alphanumeric characters of Unicode.
WordRanges == {
    <<48, 57>>, <<65, 90>>, <<95, 95>>, <<97, 122>>, <<170, 170>>,
    <<178, 179>>, <<181, 181>>, <<185, 186>>, <<188, 190>>, <<192, 214>>,
    <<216, 246>>, <<248, 705>>, <<710, 721>>, <<736, 740>>, <<748, 748>>,
    <<750, 750>>, <<880, 884>>, <<886, 887>>, <<890, 893>>, <<895, 895>>,
    <<902, 902>>, <<904, 906>>, <<908, 908>>, <<910, 929>>, <<931, 1013>>,
    <<1015, 1153>>, <<1162, 1327>>, <<1329, 1366>>, <<1369, 1369>>,
    <<1376, 1416>>, <<1488, 1514>>, <<1519, 1522>>, <<1568, 1610>>,
    <<1632, 1641>>, <<1646, 1647>>, <<1649, 1747>>, <<1749, 1749>>,
    <<1765, 1766>>, <<1774, 1788>>, <<1791, 1791>>, <<1808, 1808>>,
    <<1810, 1839>>, <<1869, 1957>>, <<1969, 1969>>, <<1984, 2026>>,
    <<2036, 2037>>, <<2042, 2042>>, <<2048, 2069>>, <<2074, 2074>>,
    <<2084, 2084>>, <<2088, 2088>>, <<2112, 2136>>, <<2144, 2154>>,
    <<2160, 2183>>, <<2185, 2190>>, <<2208, 2249>>, <<2308, 2361>>,
    <<2365, 2365>>, <<2384, 2384>>, <<2392, 2401>>, <<2406, 2415>>,
    <<2417, 2432>>, <<2437, 2444>>, <<2447, 2448>>, <<2451, 2472>>,
    <<2474, 2480>>, <<2482, 2482>>, <<2486, 2489>>, <<2493, 2493>>,
    <<2510, 2510>>, <<2524, 2525>>, <<2527, 2529>>, <<2534, 2545>>,
    <<2548, 2553>>, <<2556, 2556>>, <<2565, 2570>>, <<2575, 2576>>,
    <<2579, 2600>>, <<2602, 2608>>, <<2610, 2611>>, <<2613, 2614>>,
    <<2616, 2617>>, <<2649, 2652>>, <<2654, 2654>>, <<2662, 2671>>,
    <<2674, 2676>>, <<2693, 2701>>, <<2703, 2705>>, <<2707, 2728>>,
    <<2730, 2736>>, <<2738, 2739>>, <<2741, 2745>>, <<2749, 2749>>,
    <<2768, 2768>>, <<2784, 2785>>, <<2790, 2799>>, <<2809, 2809>>,
    <<2821, 2828>>, <<2831, 2832>>, <<2835, 2856>>, <<2858, 2864>>,
    <<2866, 2867>>, <<2869, 2873>>, <<2877, 2877>>, <<2908, 2909>>,
    <<2911, 2913>>, <<2918, 2927>>, <<2929, 2935>>, <<2947, 2947>>,
    <<2949, 2954>>, <<2958, 2960>>, <<2962, 2965>>, <<2969, 2970>>,
    <<2972, 2972>>, <<2974, 2975>>, <<2979, 2980>>, <<2984, 2986>>,
    <<2990, 3001>>, <<3024, 3024>>, <<3046, 3058>>, <<3077, 3084>>,
    <<3086, 3088>>, <<3090, 3112>>, <<3114, 3129>>, <<3133, 3133>>,
    <<3160, 3162>>, <<3165, 3165>>, <<3168, 3169>>, <<3174, 3183>>,
    <<3192, 3198>>, <<3200, 3200>>, <<3205, 3212>>, <<3214, 3216>>,
    <<3218, 3240>>, <<3242, 3251>>, <<3253, 3257>>, <<3261, 3261>>,
    <<3293, 3294>>, <<3296, 3297>>, <<3302, 3311>>, <<3313, 3314>>,
    <<3332, 3340>>, <<3342, 3344>>, <<3346, 3386>>, <<3389, 3389>>,
    <<3406, 3406>>, <<3412, 3414>>, <<3416, 3425>>, <<3430, 3448>>,
    <<3450, 3455>>, <<3461, 3478>>, <<3482, 3505>>, <<3507, 3515>>,
    <<3517, 3517>>, <<3520, 3526>>, <<3558, 3567>>, <<3585, 3632>>,
    <<3634, 3635>>, <<3648, 3654>>, <<3664, 3673>>, <<3713, 3714>>,
    <<3716, 3716>>, <<3718, 3722>>, <<3724, 3747>>, <<3749, 3749>>,
    <<3751, 3760>>, <<3762, 3763>>, <<3773, 3773>>, <<3776, 3780>>,
    <<3782, 3782>>, <<3792, 3801>>, <<3804, 3807>>, <<3840, 3840>>,
    <<3872, 3891>>, <<3904, 3911>>, <<3913, 3948>>, <<3976, 3980>>,
    <<4096, 4138>>, <<4159, 4169>>, <<4176, 4181>>, <<4186, 4189>>,
    <<4193, 4193>>, <<4197, 4198>>, <<4206, 4208>>, <<4213, 4225>>,
    <<4238, 4238>>, <<4240, 4249>>, <<4256, 4293>>, <<4295, 4295>>,
    <<4301, 4301>>, <<4304, 4346>>, <<4348, 4680>>, <<4682, 4685>>,
    <<4688, 4694>>, <<4696, 4696>>, <<4698, 4701>>, <<4704, 4744>>,
    <<4746, 4749>>, <<4752, 4784>>, <<4786, 4789>>, <<4792, 4798>>,
    <<4800, 4800>>, <<4802, 4805>>, <<4808, 4822>>, <<4824, 4880>>,
    <<4882, 4885>>, <<4888, 4954>>, <<4969, 4988>>, <<4992, 5007>>,
    <<5024, 5109>>, <<5112, 5117>>, <<5121, 5740>>, <<5743, 5759>>,
    <<5761, 5786>>, <<5792, 5866>>, <<5870, 5880>>, <<5888, 5905>>,
    <<5919, 5937>>, <<5952, 5969>>, <<5984, 5996>>, <<5998, 6000>>,
    <<6016, 6067>>, <<6103, 6103>>, <<6108, 6108>>, <<6112, 6121>>,
    <<6128, 6137>>, <<6160, 6169>>, <<6176, 6264>>, <<6272, 6276>>,
    <<6279, 6312>>, <<6314, 6314>>, <<6320, 6389>>, <<6400, 6430>>,
    <<6470, 6509>>, <<6512, 6516>>, <<6528, 6571>>, <<6576, 6601>>,
    <<6608, 6618>>, <<6656, 6678>>, <<6688, 6740>>, <<6784, 6793>>,
    <<6800, 6809>>, <<6823, 6823>>, <<6917, 6963>>, <<6981, 6988>>,
    <<6992, 7001>>, <<7043, 7072>>, <<7086, 7141>>, <<7168, 7203>>,
    <<7232, 7241>>, <<7245, 7293>>, <<7296, 7304>>, <<7312, 7354>>,
    <<7357, 7359>>, <<7401, 7404>>, <<7406, 7411>>, <<7413, 7414>>,
    <<7418, 7418>>, <<7424, 7615>>, <<7680, 7957>>, <<7960, 7965>>,
    <<7968, 8005>>, <<8008, 8013>>, <<8016, 8023>>, <<8025, 8025>>,
    <<8027, 8027>>, <<8029, 8029>>, <<8031, 8061>>, <<8064, 8116>>,
    <<8118, 8124>>, <<8126, 8126>>, <<8130, 8132>>, <<8134, 8140>>,
    <<8144, 8147>>, <<8150, 8155>>, <<8160, 8172>>, <<8178, 8180>>,
    <<8182, 8188>>, <<8304, 8305>>, <<8308, 8313>>, <<8319, 8329>>,
    <<8336, 8348>>, <<8450, 8450>>, <<8455, 8455>>, <<8458, 8467>>,
    <<8469, 8469>>, <<8473, 8477>>, <<8484, 8484>>, <<8486, 8486>>,
    <<8488, 8488>>, <<8490, 8493>>, <<8495, 8505>>, <<8508, 8511>>,
    <<8517, 8521>>, <<8526, 8526>>, <<8528, 8585>>, <<9312, 9371>>,
    <<9450, 9471>>, <<10102, 10131>>, <<11264, 11492>>, <<11499, 11502>>,
    <<11506, 11507>>, <<11517, 11517>>, <<11520, 11557>>, <<11559, 11559>>,
    <<11565, 11565>>, <<11568, 11623>>, <<11631, 11631>>, <<11648, 11670>>,
    <<11680, 11686>>, <<11688, 11694>>, <<11696, 11702>>, <<11704, 11710>>,
    <<11712, 11718>>, <<11720, 11726>>, <<11728, 11734>>, <<11736, 11742>>,
    <<11823, 11823>>, <<12293, 12295>>, <<12321, 12329>>, <<12337, 12341>>,
    <<12344, 12348>>, <<12353, 12438>>, <<12445, 12447>>, <<12449, 12538>>,
    <<12540, 12543>>, <<12549, 12591>>, <<12593, 12686>>, <<12690, 12693>>,
    <<12704, 12735>>, <<12784, 12799>>, <<12832, 12841>>, <<12872, 12879>>,
    <<12881, 12895>>, <<12928, 12937>>, <<12977, 12991>>, <<13312, 19903>>,
    <<19968, 42124>>, <<42192, 42237>>, <<42240, 42508>>, <<42512, 42539>>,
    <<42560, 42606>>, <<42623, 42653>>, <<42656, 42735>>, <<42775, 42783>>,
    <<42786, 42888>>, <<42891, 42954>>, <<42960, 42961>>, <<42963, 42963>>,
    <<42965, 42969>>, <<42994, 43009>>, <<43011, 43013>>, <<43015, 43018>>,
    <<43020, 43042>>, <<43056, 43061>>, <<43072, 43123>>, <<43138, 43187>>,
    <<43216, 43225>>, <<43250, 43255>>, <<43259, 43259>>, <<43261, 43262>>,
    <<43264, 43301>>, <<43312, 43334>>, <<43360, 43388>>, <<43396, 43442>>,
    <<43471, 43481>>, <<43488, 43492>>, <<43494, 43518>>, <<43520, 43560>>,
    <<43584, 43586>>, <<43588, 43595>>, <<43600, 43609>>, <<43616, 43638>>,
    <<43642, 43642>>, <<43646, 43695>>, <<43697, 43697>>, <<43701, 43702>>,
    <<43705, 43709>>, <<43712, 43712>>, <<43714, 43714>>, <<43739, 43741>>,
    <<43744, 43754>>, <<43762, 43764>>, <<43777, 43782>>, <<43785, 43790>>,
    <<43793, 43798>>, <<43808, 43814>>, <<43816, 43822>>, <<43824, 43866>>,
    <<43868, 43881>>, <<43888, 44002>>, <<44016, 44025>>, <<44032, 55203>>,
    <<55216, 55238>>, <<55243, 55291>>, <<63744, 64109>>, <<64112, 64217>>,
    <<64256, 64262>>, <<64275, 64279>>, <<64285, 64285>>, <<64287, 64296>>,
    <<64298, 64310>>, <<64312, 64316>>, <<64318, 64318>>, <<64320, 64321>>,
    <<64323, 64324>>, <<64326, 64433>>, <<64467, 64829>>, <<64848, 64911>>,
    <<64914, 64967>>, <<65008, 65019>>, <<65136, 65140>>, <<65142, 65276>>,
    <<65296, 65305>>, <<65313, 65338>>, <<65345, 65370>>, <<65382, 65470>>,
    <<65474, 65479>>, <<65482, 65487>>, <<65490, 65495>>, <<65498, 65500>>,
    <<65536, 65547>>, <<65549, 65574>>, <<65576, 65594>>, <<65596, 65597>>,
    <<65599, 65613>>, <<65616, 65629>>, <<65664, 65786>>, <<65799, 65843>>,
    <<65856, 65912>>, <<65930, 65931>>, <<66176, 66204>>, <<66208, 66256>>,
    <<66273, 66299>>, <<66304, 66339>>, <<66349, 66378>>, <<66384, 66421>>,
    <<66432, 66461>>, <<66464, 66499>>, <<66504, 66511>>, <<66513, 66517>>,
    <<66560, 66717>>, <<66720, 66729>>, <<66736, 66771>>, <<66776, 66811>>,
    <<66816, 66855>>, <<66864, 66915>>, <<66928, 66938>>, <<66940, 66954>>,
    <<66956, 66962>>, <<66964, 66965>>, <<66967, 66977>>, <<66979, 66993>>,
    <<66995, 67001>>, <<67003, 67004>>, <<67072, 67382>>, <<67392, 67413>>,
    <<67424, 67431>>, <<67456, 67461>>, <<67463, 67504>>, <<67506, 67514>>,
    <<67584, 67589>>, <<67592, 67592>>, <<67594, 67637>>, <<67639, 67640>>,
    <<67644, 67644>>, <<67647, 67669>>, <<67672, 67702>>, <<67705, 67742>>,
    <<67751, 67759>>, <<67808, 67826>>, <<67828, 67829>>, <<67835, 67867>>,
    <<67872, 67897>>, <<67968, 68023>>, <<68028, 68047>>, <<68050, 68096>>,
    <<68112, 68115>>, <<68117, 68119>>, <<68121, 68149>>, <<68160, 68168>>,
    <<68192, 68222>>, <<68224, 68255>>, <<68288, 68295>>, <<68297, 68324>>,
    <<68331, 68335>>, <<68352, 68405>>, <<68416, 68437>>, <<68440, 68466>>,
    <<68472, 68497>>, <<68521, 68527>>, <<68608, 68680>>, <<68736, 68786>>,
    <<68800, 68850>>, <<68858, 68899>>, <<68912, 68921>>, <<69216, 69246>>,
    <<69248, 69289>>, <<69296, 69297>>, <<69376, 69415>>, <<69424, 69445>>,
    <<69457, 69460>>, <<69488, 69505>>, <<69552, 69579>>, <<69600, 69622>>,
    <<69635, 69687>>, <<69714, 69743>>, <<69745, 69746>>, <<69749, 69749>>,
    <<69763, 69807>>, <<69840, 69864>>, <<69872, 69881>>, <<69891, 69926>>,
    <<69942, 69951>>, <<69956, 69956>>, <<69959, 69959>>, <<69968, 70002>>,
    <<70006, 70006>>, <<70019, 70066>>, <<70081, 70084>>, <<70096, 70106>>,
    <<70108, 70108>>, <<70113, 70132>>, <<70144, 70161>>, <<70163, 70187>>,
    <<70272, 70278>>, <<70280, 70280>>, <<70282, 70285>>, <<70287, 70301>>,
    <<70303, 70312>>, <<70320, 70366>>, <<70384, 70393>>, <<70405, 70412>>,
    <<70415, 70416>>, <<70419, 70440>>, <<70442, 70448>>, <<70450, 70451>>,
    <<70453, 70457>>, <<70461, 70461>>, <<70480, 70480>>, <<70493, 70497>>,
    <<70656, 70708>>, <<70727, 70730>>, <<70736, 70745>>, <<70751, 70753>>,
    <<70784, 70831>>, <<70852, 70853>>, <<70855, 70855>>, <<70864, 70873>>,
    <<71040, 71086>>, <<71128, 71131>>, <<71168, 71215>>, <<71236, 71236>>,
    <<71248, 71257>>, <<71296, 71338>>, <<71352, 71352>>, <<71360, 71369>>,
    <<71424, 71450>>, <<71472, 71483>>, <<71488, 71494>>, <<71680, 71723>>,
    <<71840, 71922>>, <<71935, 71942>>, <<71945, 71945>>, <<71948, 71955>>,
    <<71957, 71958>>, <<71960, 71983>>, <<71999, 71999>>, <<72001, 72001>>,
    <<72016, 72025>>, <<72096, 72103>>, <<72106, 72144>>, <<72161, 72161>>,
    <<72163, 72163>>, <<72192, 72192>>, <<72203, 72242>>, <<72250, 72250>>,
    <<72272, 72272>>, <<72284, 72329>>, <<72349, 72349>>, <<72368, 72440>>,
    <<72704, 72712>>, <<72714, 72750>>, <<72768, 72768>>, <<72784, 72812>>,
    <<72818, 72847>>, <<72960, 72966>>, <<72968, 72969>>, <<72971, 73008>>,
    <<73030, 73030>>, <<73040, 73049>>, <<73056, 73061>>, <<73063, 73064>>,
    <<73066, 73097>>, <<73112, 73112>>, <<73120, 73129>>, <<73440, 73458>>,
    <<73648, 73648>>, <<73664, 73684>>, <<73728, 74649>>, <<74752, 74862>>,
    <<74880, 75075>>, <<77712, 77808>>, <<77824, 78894>>, <<82944, 83526>>,
    <<92160, 92728>>, <<92736, 92766>>, <<92768, 92777>>, <<92784, 92862>>,
    <<92864, 92873>>, <<92880, 92909>>, <<92928, 92975>>, <<92992, 92995>>,
    <<93008, 93017>>, <<93019, 93025>>, <<93027, 93047>>, <<93053, 93071>>,
    <<93760, 93846>>, <<93952, 94026>>, <<94032, 94032>>, <<94099, 94111>>,
    <<94176, 94177>>, <<94179, 94179>>, <<94208, 100343>>, <<100352, 101589>>,
    <<101632, 101640>>, <<110576, 110579>>, <<110581, 110587>>,
    <<110589, 110590>>, <<110592, 110882>>, <<110928, 110930>>,
    <<110948, 110951>>, <<110960, 111355>>, <<113664, 113770>>,
    <<113776, 113788>>, <<113792, 113800>>, <<113808, 113817>>,
    <<119520, 119539>>, <<119648, 119672>>, <<119808, 119892>>,
    <<119894, 119964>>, <<119966, 119967>>, <<119970, 119970>>,
    <<119973, 119974>>, <<119977, 119980>>, <<119982, 119993>>,
    <<119995, 119995>>, <<119997, 120003>>, <<120005, 120069>>,
    <<120071, 120074>>, <<120077, 120084>>, <<120086, 120092>>,
    <<120094, 120121>>, <<120123, 120126>>, <<120128, 120132>>,
    <<120134, 120134>>, <<120138, 120144>>, <<120146, 120485>>,
    <<120488, 120512>>, <<120514, 120538>>, <<120540, 120570>>,
    <<120572, 120596>>, <<120598, 120628>>, <<120630, 120654>>,
    <<120656, 120686>>, <<120688, 120712>>, <<120714, 120744>>,
    <<120746, 120770>>, <<120772, 120779>>, <<120782, 120831>>,
    <<122624, 122654>>, <<123136, 123180>>, <<123191, 123197>>,
    <<123200, 123209>>, <<123214, 123214>>, <<123536, 123565>>,
    <<123584, 123627>>, <<123632, 123641>>, <<124896, 124902>>,
    <<124904, 124907>>, <<124909, 124910>>, <<124912, 124926>>,
    <<124928, 125124>>, <<125127, 125135>>, <<125184, 125251>>,
    <<125259, 125259>>, <<125264, 125273>>, <<126065, 126123>>,
    <<126125, 126127>>, <<126129, 126132>>, <<126209, 126253>>,
    <<126255, 126269>>, <<126464, 126467>>, <<126469, 126495>>,
    <<126497, 126498>>, <<126500, 126500>>, <<126503, 126503>>,
    <<126505, 126514>>, <<126516, 126519>>, <<126521, 126521>>,
    <<126523, 126523>>, <<126530, 126530>>, <<126535, 126535>>,
    <<126537, 126537>>, <<126539, 126539>>, <<126541, 126543>>,
    <<126545, 126546>>, <<126548, 126548>>, <<126551, 126551>>,
    <<126553, 126553>>, <<126555, 126555>>, <<126557, 126557>>,
    <<126559, 126559>>, <<126561, 126562>>, <<126564, 126564>>,
    <<126567, 126570>>, <<126572, 126578>>, <<126580, 126583>>,
    <<126585, 126588>>, <<126590, 126590>>, <<126592, 126601>>,
    <<126603, 126619>>, <<126625, 126627>>, <<126629, 126633>>,
    <<126635, 126651>>, <<127232, 127244>>, <<130032, 130041>>,
    <<131072, 173791>>, <<173824, 177976>>, <<177984, 178205>>,
    <<178208, 183969>>, <<183984, 191456>>, <<194560, 195101>>,
    <<196608, 201546>>}

WordChars == Spanned(WordRanges)

\* [A-Za-z_], the first character of an identifier.
IdentStart == Letters \cup {Ord("_")}

\* [fF], the optional prefix of a string literal.
StringPrefix == {Ord("f"), Ord("F")}

\* [ \t]
Blank == {Ord(" "), Ord("\t")}

\* The literal each fixed pattern of the table spells (DOT is the '\.' of
\* the NUMBER pattern).
Literals == [BADSEQ |-> Str("))"), DOT |-> Str("."),
             EQEQ |-> Str("=="), NEQ |-> Str("!="), LE |-> Str("<="),
             GE |-> Str(">="), ASSIGN |-> Str("="), LT |-> Str("<"),
             GT |-> Str(">"), PLUS |-> Str("+"), MINUS |-> Str("-"),
             STAR |-> Str("*"), SLASH |-> Str("/"), LPAREN |-> Str("("),
             RPAREN |-> Str(")"), COMMA |-> Str(","), COLON |-> Str(":"),
             NEWLINE |-> Str("\n")]

\* \+=|-=|\*=|/=
AugOps == {Str("+="), Str("-="), Str("*="), Str("/=")}

\* The fixed text of an error message, around the lexeme.
ErrorHead == Str("Error, ")
ErrorTail == Str(" is not recognized as a token")

\* Whether the character at 1-based index i exists and is a \w character.
IsWordAt(t, i) == i >= 1 /\ i <= Len(t) /\ Ch(t, i) \in WordChars

\* \b at offset p: exactly one of the characters around p is a \w character.
WordBoundary(t, p) == IsWordAt(t, p) # IsWordAt(t, p + 1)

\* The literal s matches at offset p.
LitAt(t, p, s) == p + Len(s) <= Len(t) /\ SubSeq(t, p + 1, p + Len(s)) = s

\* Length of the run of characters of class C starting at 1-based index i.
RECURSIVE RunLen(_, _, _)
RunLen(t, i, C) == IF i <= Len(t) /\ Ch(t, i) \in C
                   THEN 1 + RunLen(t, i + 1, C) ELSE 0

\* ------------------------------------------------------- the patterns
\* Each pattern is the length of its match at offset p, 0 when it does not
\* match there (no pattern of TOKEN_SPEC matches the empty text).

KEYWORDS == <<Str("def"), Str("if"), Str("else"), Str("elif"), Str("return"),
              Str("while"), Str("for"), Str("in"), Str("and"), Str("or"),
              Str("not"), Str("True"), Str("False"), Str("None")>>

BUILTIN == <<Str("print")>>

\* (?:w1|w2|...)\b from alternative i on: the first word that matches and
\* is followed by a word boundary.
RECURSIVE WordAlt(_, _, _, _)
WordAlt(t, p, words, i) ==
  IF i > Len(words) THEN 0
  ELSE IF LitAt(t, p, words[i]) /\ WordBoundary(t, p + Len(words[i]))
       THEN Len(words[i])
       ELSE WordAlt(t, p, words, i + 1)

KeywordLen(t, p) == IF WordBoundary(t, p) THEN WordAlt(t, p, KEYWORDS, 1) ELSE 0

BuiltinLen(t, p) == IF WordBoundary(t, p) THEN WordAlt(t, p, BUILTIN, 1) ELSE 0

\* (?:[^q\\\n]|\\.)*q from 1-based index i: the index of the closing quote,
\* 0 when the body meets a line feed, a dangling backslash or the end first.
RECURSIVE StrBody(_, _, _)
StrBody(t, i, q) ==
  IF i > Len(t) THEN 0
  ELSE LET c == Ch(t, i)
       IN  IF c = q THEN i
           ELSE IF c = LineFeed THEN 0
           ELSE IF c = Backslash
                THEN IF i + 1 <= Len(t) /\ Ch(t, i + 1) # LineFeed
                     THEN StrBody(t, i + 2, q) ELSE 0
                ELSE StrBody(t, i + 1, q)

\* (?:[fF]?)q(?:[^q\\\n]|\\.)*q at offset p.
QuotedLen(t, p, q) ==
  LET pre == IF p + 2 <= Len(t) /\ Ch(t, p + 1) \in StringPrefix /\ Ch(t, p + 2) = q
             THEN 1 ELSE 0
  IN  IF p + pre + 1 <= Len(t) /\ Ch(t, p + pre + 1) = q
      THEN LET e == StrBody(t, p + pre + 2, q)
           IN  IF e = 0 THEN 0 ELSE e - p
      ELSE 0

StringLen(t, p) == IF QuotedLen(t, p, SingleQuote) > 0
                   THEN QuotedLen(t, p, SingleQuote)
                   ELSE QuotedLen(t, p, DoubleQuote)

\* '\)\)+' in place of '\)\)': a whole run of ')' becomes one error.
BadseqLenGreedy(t, p) ==
  IF LitAt(t, p, Literals.BADSEQ) THEN RunLen(t, p + 1, {RParen}) ELSE 0

BadseqLen(t, p) == IF LitAt(t, p, Literals.BADSEQ) THEN 2 ELSE 0

\* \d+(?:\.\d+)?
NumberLen(t, p) ==
  LET n == RunLen(t, p + 1, Digits)
  IN  IF n = 0 THEN 0
      ELSE IF LitAt(t, p + n, Literals.DOT) /\ RunLen(t, p + n + 2, Digits) > 0
           THEN n + 1 + RunLen(t, p + n + 2, Digits)
           ELSE n

\* [A-Za-z_]\w*
IdentLen(t, p) ==
  IF p + 1 <= Len(t) /\ Ch(t, p + 1) \in IdentStart
  THEN 1 + RunLen(t, p + 2, WordChars) ELSE 0

AugassignLen(t, p) ==
  IF \E s \in AugOps : LitAt(t, p, s) THEN 2 ELSE 0

LitLen(t, p, s) == IF LitAt(t, p, s) THEN Len(s) ELSE 0

\* The table without a rule for the line feed, which '.' does not match.
NewlineLenDropped(t, p) == 0

NewlineLen(t, p) == LitLen(t, p, Literals.NEWLINE)

\* [ \t]+
SkipLen(t, p) == RunLen(t, p + 1, Blank)

\* . (any character but a line feed)
MismatchLen(t, p) == IF p + 1 <= Len(t) /\ Ch(t, p + 1) # LineFeed THEN 1 ELSE 0

\* ----------------------------------------------------- the rule table

\* The names of TOKEN_SPEC, in list order.
TOKEN_SPEC == <<"STRING", "BADSEQ", "KEYWORD", "BUILTIN", "NUMBER", "IDENT",
                "AUGASSIGN", "EQEQ", "NEQ", "LE", "GE", "ASSIGN", "LT", "GT",
                "PLUS", "MINUS", "STAR", "SLASH", "LPAREN", "RPAREN", "COMMA",
                "COLON", "NEWLINE", "SKIP", "MISMATCH">>

\* The pattern TOKEN_SPEC gives each name.
RuleLen(kind, t, p) ==
  CASE kind = "STRING"    -> StringLen(t, p)
    [] kind = "BADSEQ"    -> BadseqLen(t, p)
    [] kind = "KEYWORD"   -> KeywordLen(t, p)
    [] kind = "BUILTIN"   -> BuiltinLen(t, p)
    [] kind = "NUMBER"    -> NumberLen(t, p)
    [] kind = "IDENT"     -> IdentLen(t, p)
    [] kind = "AUGASSIGN" -> AugassignLen(t, p)
    [] kind = "EQEQ"      -> LitLen(t, p, Literals.EQEQ)
    [] kind = "NEQ"       -> LitLen(t, p, Literals.NEQ)
    [] kind = "LE"        -> LitLen(t, p, Literals.LE)
    [] kind = "GE"        -> LitLen(t, p, Literals.GE)
    [] kind = "ASSIGN"    -> LitLen(t, p, Literals.ASSIGN)
    [] kind = "LT"        -> LitLen(t, p, Literals.LT)
    [] kind = "GT"        -> LitLen(t, p, Literals.GT)
    [] kind = "PLUS"      -> LitLen(t, p, Literals.PLUS)
    [] kind = "MINUS"     -> LitLen(t, p, Literals.MINUS)
    [] kind = "STAR"      -> LitLen(t, p, Literals.STAR)
    [] kind = "SLASH"     -> LitLen(t, p, Literals.SLASH)
    [] kind = "LPAREN"    -> LitLen(t, p, Literals.LPAREN)
    [] kind = "RPAREN"    -> LitLen(t, p, Literals.RPAREN)
    [] kind = "COMMA"     -> LitLen(t, p, Literals.COMMA)
    [] kind = "COLON"     -> LitLen(t, p, Literals.COLON)
    [] kind = "NEWLINE"   -> NewlineLen(t, p)
    [] kind = "SKIP"      -> SkipLen(t, p)
    [] kind = "MISMATCH"  -> MismatchLen(t, p)

\* TOKEN_SPEC with the places of the names a and b exchanged.
Exchanged(a, b) ==
  [i \in 1..Len(TOKEN_SPEC) |->
     IF TOKEN_SPEC[i] = a THEN b ELSE IF TOKEN_SPEC[i] = b THEN a ELSE TOKEN_SPEC[i]]

\* Alternations that list a shorter pattern before a longer one.
MasterAssignFirst == Exchanged("ASSIGN", "EQEQ")
MasterMinusFirst == Exchanged("MINUS", "AUGASSIGN")
MasterRparenFirst == Exchanged("RPAREN", "BADSEQ")

\* MASTER_RE: the named groups joined by '|', in the order of TOKEN_SPEC.
MASTER_RE == [i \in 1..Len(TOKEN_SPEC) |-> TOKEN_SPEC[i]]

NoMatch == [kind |-> "", start |-> 0, end |-> 0]

\* The alternation at offset q, from alternative i on: the first group that
\* matches there (lastgroup, start(), end()).
RECURSIVE AltAt(_, _, _)
AltAt(t, q, i) ==
  IF i > Len(MASTER_RE) THEN NoMatch
  ELSE LET n == RuleLen(MASTER_RE[i], t, q)
       IN  IF n > 0
           THEN [kind |-> MASTER_RE[i], start |-> q, end |-> q + n]
           ELSE AltAt(t, q, i + 1)

\* The next match of finditer from offset q: a search, i.e. the match at the
\* leftmost offset >= q where the alternation matches; NoMatch when none does.
RECURSIVE Search(_, _)
Search(t, q) ==
  IF q >= Len(t) THEN NoMatch
  ELSE LET m == AltAt(t, q, 1)
       IN  IF m # NoMatch THEN m ELSE Search(t, q + 1)

\* m.group()
Lexeme(t, m) == SubSeq(t, m.start + 1, m.end)

ErrorMessage(lexeme) == ErrorHead \o lexeme \o ErrorTail

\* list.insert(0, item)
KeepFront(list, item) == <<item>> \o list

\* list.append(item)
Keep(list, item) == Append(list, item)

\* The token kept for a line feed: the two characters backslash and n.
NewlineToken == <<"NEWLINE", Str("\\n")>>

\* The line feed kept as it is, unescaped.
AfterNewlineRaw(toks, lexeme) == Append(toks, <<"NEWLINE", lexeme>>)

\* The NEWLINE branch without its continue: the match falls through to the
\* final append as well.
AfterNewlineFallThrough(toks, lexeme) ==
  Append(Append(toks, NewlineToken), <<"NEWLINE", lexeme>>)

\* What the NEWLINE branch leaves in tokens.
AfterNewline(toks, lexeme) == Keep(toks, NewlineToken)

\* ------------------------------------------------------------ tokenize

VARIABLES text,     \* the argument of tokenize
          m,        \* the loop variable: the match finditer yielded last
          matches,  \* the matches the loop body has dealt with, in order
          tokens,   \* the list tokens
          errors,   \* the list errors
          pc        \* "scan" inside the loop, "done" once tokenize returned

vars == <<text, m, matches, tokens, errors, pc>>

Init == /\ text \in Inputs
        /\ m = Search(text, 0)
        /\ matches = <<>>
        /\ tokens = <<>>
        /\ errors = <<>>
        /\ pc = "scan"

\* The end of the loop body: finditer resumes its search at m.end().
Advance == /\ matches' = Append(matches, m)
           /\ m' = Search(text, m.end)
           /\ UNCHANGED <<text, pc>>

\* kind == 'SKIP': nothing is kept.
Skip == /\ pc = "scan"
        /\ m.kind = "SKIP"
        /\ Advance
        /\ UNCHANGED <<tokens, errors>>

\* kind == 'NEWLINE': kept as a token with the escaped lexeme.
Newline == /\ pc = "scan"
           /\ m.kind = "NEWLINE"
           /\ tokens' = AfterNewline(tokens, Lexeme(text, m))
           /\ Advance
           /\ UNCHANGED errors

\* kind == 'BADSEQ'
Badseq == /\ pc = "scan"
          /\ m.kind = "BADSEQ"
          /\ errors' = Keep(errors, ErrorMessage(Lexeme(text, m)))
          /\ Advance
          /\ UNCHANGED tokens

\* kind == 'MISMATCH'
Mismatch == /\ pc = "scan"
            /\ m.kind = "MISMATCH"
            /\ errors' = Keep(errors, ErrorMessage(Lexeme(text, m)))
            /\ Advance
            /\ UNCHANGED tokens

\* Any other kind: a valid token.
Emit == /\ pc = "scan"
        /\ m # NoMatch
        /\ m.kind \notin {"SKIP", "NEWLINE", "BADSEQ", "MISMATCH"}
        /\ tokens' = Keep(tokens, <<m.kind, Lexeme(text, m)>>)
        /\ Advance
        /\ UNCHANGED errors

\* finditer is exhausted: return tokens, errors.
Return == /\ pc = "scan"
          /\ m = NoMatch
          /\ pc' = "done"
          /\ UNCHANGED <<text, m, matches, tokens, errors>>

Next == \/ Skip
        \/ Newline
        \/ Badseq
        \/ Mismatch
        \/ Emit
        \/ Return

Spec == Init /\ [][Next]_vars

\* ------------------------------------------------ vocabulary of the claims

Done == pc = "done"

ErrorKinds == {"BADSEQ", "MISMATCH"}

IsSkip(x) == x.kind = "SKIP"
IsError(x) == x.kind \in ErrorKinds
IsToken(x) == ~IsSkip(x) /\ ~IsError(x)

TokenMatches == SelectSeq(matches, IsToken)
ErrorMatches == SelectSeq(matches, IsError)

\* Where the matches dealt with so far end.
Consumed == IF matches = <<>> THEN 0 ELSE matches[Len(matches)].end

Offsets == 0..(Len(text) - 1)

\* The match dealt with that covers offset p.
Covering(p) == {k \in 1..Len(matches) : matches[k].start <= p /\ p < matches[k].end}

InsideString(p) == \E k \in Covering(p) : matches[k].kind = "STRING"

\* Number of list entries satisfying Test.
Count(list, Test(_)) == Cardinality({k \in 1..Len(list) : Test(list[k])})

\* Whether s holds a character of class C.
HasChar(s, C) == \E i \in 1..Len(s) : Ch(s, i) \in C

\* The message of a lexeme, written out.
MessageHead == Str("Error, ")
MessageTail == Str(" is not recognized as a token")

MessageOf(lexeme) == MessageHead \o lexeme \o MessageTail

\* The lexeme a message was made from.
LexemeOf(msg) ==
  IF Len(msg) >= Len(MessageHead) + Len(MessageTail) + 1
  THEN SubSeq(msg, Len(MessageHead) + 1, Len(msg) - Len(MessageTail))
  ELSE <<>>

\* A reference scanner: at each position it tries the rules of TOKEN_SPEC one
\* by one in list order and takes the first that matches.
RECURSIVE FirstRuleFrom(_, _, _)
FirstRuleFrom(t, p, i) ==
  IF i > Len(TOKEN_SPEC) THEN 0
  ELSE IF RuleLen(TOKEN_SPEC[i], t, p) > 0 THEN i
  ELSE FirstRuleFrom(t, p, i + 1)

\* The place in TOKEN_SPEC of the first rule that matches at offset p, 0 when
\* none does.
FirstRule(t, p) == FirstRuleFrom(t, p, 1)

RECURSIVE RefMatches(_, _)
RefMatches(t, p) ==
  IF p >= Len(t) THEN <<>>
  ELSE LET i == FirstRule(t, p)
       IN  IF i = 0 THEN RefMatches(t, p + 1)
           ELSE LET n == RuleLen(TOKEN_SPEC[i], t, p)
                IN  <<[kind |-> TOKEN_SPEC[i], start |-> p, end |-> p + n]>>
                      \o RefMatches(t, p + n)

\* Backslash, n: the lexeme of a NEWLINE token.
EscapedLineFeed == <<Backslash, Ord("n")>>

\* What the reference scanner keeps of its matches ms: the tokens.
RefTokens(t, ms) ==
  LET xs == SelectSeq(ms, IsToken)
  IN  [k \in 1..Len(xs) |->
         IF xs[k].kind = "NEWLINE" THEN <<"NEWLINE", EscapedLineFeed>>
         ELSE <<xs[k].kind, SubSeq(t, xs[k].start + 1, xs[k].end)>>]

\* What the reference scanner keeps of its matches ms: the errors.
RefErrors(t, ms) ==
  LET xs == SelectSeq(ms, IsError)
  IN  [k \in 1..Len(xs) |-> MessageOf(SubSeq(t, xs[k].start + 1, xs[k].end))]

\* ----------------------------------------------------------------- C1
\* C1: the matches partition the input: every match is non-empty, the first
\* starts at offset 0, each next one starts where the one before ended, and
\* once tokenize has returned they end at the input's length, so that every
\* offset of the input lies in exactly one match.
C1_Partition ==
  /\ \A k \in 1..Len(matches) :
       /\ matches[k].start < matches[k].end
       /\ matches[k].start = IF k = 1 THEN 0 ELSE matches[k - 1].end
  /\ (pc = "scan" /\ m # NoMatch) => m.start = Consumed /\ m.start < m.end
  /\ Done => /\ Consumed = Len(text)
             /\ \A p \in Offsets : Cardinality(Covering(p)) = 1

\* An input with a line feed and an unknown character, scanned to its end.
C1_Witness ==
  /\ Done
  /\ Len(matches) >= 3
  /\ \E k \in 1..Len(matches) : matches[k].kind = "NEWLINE"
  /\ \E k \in 1..Len(matches) : matches[k].kind = "MISMATCH"

\* ----------------------------------------------------------------- C2
\* C2: every match tokenize makes is the match of the first rule of
\* TOKEN_SPEC, in list order, whose pattern matches at its start, and the
\* scan resumes right at its end: the matches and the result of tokenize are
\* those of the reference scanner, which at each position tries the rules one
\* by one in list order, takes the first that matches and advances by the
\* length of its match.
C2_FirstRule ==
  Done => LET ref == RefMatches(text, 0)
          IN  /\ matches = ref
              /\ tokens = RefTokens(text, ref)
              /\ errors = RefErrors(text, ref)

\* A finished scan of several matches, one of them made where a later rule
\* of the list matches as well ("if" is also an identifier, "=" starts "==").
C2_Witness ==
  /\ Done
  /\ Len(matches) >= 2
  /\ \E k \in 1..Len(matches) :
       \E j \in 1..Len(TOKEN_SPEC) :
          /\ j > FirstRule(text, matches[k].start)
          /\ RuleLen(TOKEN_SPEC[j], text, matches[k].start) > 0
          /\ TOKEN_SPEC[j] # "MISMATCH"

\* ----------------------------------------------------------------- C3
\* C3: errors holds one message per BADSEQ or MISMATCH match, in input order,
\* each "Error, <lexeme> is not recognized as a token" with <lexeme> either
\* "))" or one character; an error consumes its lexeme only and never halts
\* the scan: the next match starts right behind it, the scan reaches the end
\* of the input, and the characters behind the error are scanned as usual,
\* that is, into the very matches they are scanned into on their own.
C3_ErrorsContinue ==
  /\ Len(errors) = Len(ErrorMatches)
  /\ \A k \in 1..Len(errors) :
       LET x == ErrorMatches[k]
           lexeme == SubSeq(text, x.start + 1, x.end)
       IN  /\ k <= Len(ErrorMatches)
           /\ errors[k] = MessageOf(lexeme)
           /\ lexeme = <<RParen, RParen>> \/ Len(lexeme) = 1
  /\ Done =>
       /\ Consumed = Len(text)
       /\ \A k \in 1..Len(matches) :
            IsError(matches[k]) =>
              LET e == matches[k].end
                  rest == RefMatches(SubSeq(text, e + 1, Len(text)), 0)
              IN  /\ (e < Len(text)) => (k < Len(matches) /\ matches[k + 1].start = e)
                  /\ Len(rest) = Len(matches) - k
                  /\ \A j \in 1..Len(rest) :
                       matches[k + j] = [kind |-> rest[j].kind,
                                         start |-> rest[j].start + e,
                                         end |-> rest[j].end + e]

\* ----------------------------------------------------------------- C4
KeywordSet == {KEYWORDS[i] : i \in 1..Len(KEYWORDS)}

\* Whether a reserved word occurs in s without being all of s.
HasKeywordInside(s) ==
  \E w \in KeywordSet : \E p \in 0..Len(s) : Len(w) < Len(s) /\ LitAt(s, p, w)

\* C4: a token whose lexeme is exactly a reserved word is a KEYWORD and never
\* an IDENT, whatever stands around it; a word (a maximal run of word
\* characters that starts with a letter or '_') that holds a reserved word
\* only as a proper part is one IDENT token.
C4_KeywordNeverIdent ==
  /\ \A k \in 1..Len(tokens) :
       tokens[k][2] \in KeywordSet => tokens[k][1] = "KEYWORD"
  /\ \A k \in 1..Len(matches) :
       LET x == matches[k]
       IN  (/\ x.kind \in {"IDENT", "KEYWORD", "BUILTIN"}
            /\ ~IsWordAt(text, x.start)
            /\ HasKeywordInside(Lexeme(text, x))) => x.kind = "IDENT"

\* ----------------------------------------------------------------- C5
\* Number of consecutive ')' that end right before offset p.
RECURSIVE RparensBefore(_, _)
RparensBefore(t, p) == IF p >= 1 /\ Ch(t, p) = RParen
                       THEN 1 + RparensBefore(t, p - 1) ELSE 0

PairMessage == MessageOf(<<RParen, RParen>>)

IsPairMessage(e) == e = PairMessage

\* The pair "))" at offset p is one match reported as an error, and none of
\* its two characters belongs to a token.
PairReported(p) ==
  /\ \E k \in 1..Len(matches) :
       matches[k] = [kind |-> "BADSEQ", start |-> p, end |-> p + 2]
  /\ \A k \in Covering(p) \cup Covering(p + 1) : ~IsToken(matches[k])
  /\ \E j \in 1..Len(errors) : errors[j] = PairMessage

\* C5 as stated: every "))" of the input, whatever precedes or follows it
\* (quotes included), is reported as the error and none of its characters is
\* an RPAREN token or part of another token.
C5_Original ==
  Done => \A p \in Offsets : LitAt(text, p, <<RParen, RParen>>) => PairReported(p)

\* The pairs the scan arrives at: outside a string literal, and an even
\* number of ')' into their run.
ScannedPairs ==
  {p \in Offsets : /\ LitAt(text, p, <<RParen, RParen>>)
                   /\ ~InsideString(p)
                   /\ RparensBefore(text, p) % 2 = 0}

\* C5 as amended: every "))" that lies outside a string literal and starts
\* an even number of ')' into its run is reported as the error, whatever
\* stands around it, and none of its characters is part of a token; errors
\* holds one such message per such pair.
C5_PairAtScanPosition ==
  Done => /\ \A p \in ScannedPairs : PairReported(p)
          /\ Count(errors, IsPairMessage) = Cardinality(ScannedPairs)

\* A reported pair with text before it and text behind it.
C5_Witness ==
  /\ Done
  /\ \E p \in ScannedPairs : p > 0 /\ p + 2 < Len(text)
  /\ PairMessage \in {errors[j] : j \in 1..Len(errors)}

\* ----------------------------------------------------------------- C6
\* The two-character operators, each with the kind of its token.
OpKinds == {<<Str("+="), "AUGASSIGN">>, <<Str("-="), "AUGASSIGN">>,
            <<Str("*="), "AUGASSIGN">>, <<Str("/="), "AUGASSIGN">>,
            <<Str("=="), "EQEQ">>, <<Str("!="), "NEQ">>,
            <<Str("<="), "LE">>, <<Str(">="), "GE">>}

TwoCharOps == {x[1] : x \in OpKinds}

OpKind(op) == (CHOOSE x \in OpKinds : x[1] = op)[2]

\* The place in tokens of the token made from matches[k].
TokenIndex(k) == Len(SelectSeq(SubSeq(matches, 1, k), IsToken))

\* C6: a match that starts at a two-character operator is that operator: one
\* token of the operator's kind with the two-character lexeme; and no two
\* tokens made from adjoining matches have lexemes that together spell a
\* two-character operator.
C6_OperatorsWhole ==
  /\ \A k \in 1..Len(matches) : \A op \in TwoCharOps :
       LitAt(text, matches[k].start, op) =>
         /\ matches[k].end = matches[k].start + 2
         /\ TokenIndex(k) \in 1..Len(tokens)
         /\ tokens[TokenIndex(k)] = <<OpKind(op), op>>
  /\ \A k \in 1..(Len(matches) - 1) :
       (IsToken(matches[k]) /\ IsToken(matches[k + 1])) =>
         /\ TokenIndex(k + 1) \in 2..Len(tokens)
         /\ tokens[TokenIndex(k)][2] \o tokens[TokenIndex(k + 1)][2] \notin TwoCharOps

\* "-=" scanned as one AUGASSIGN token among other tokens.
C6_Witness ==
  /\ Done
  /\ Len(tokens) >= 2
  /\ \E j \in 1..Len(tokens) : tokens[j] = <<"AUGASSIGN", <<Ord("-"), Ord("=")>>>>

\* ----------------------------------------------------------------- C7
IsNewlineToken(tok) == tok[1] = "NEWLINE"

LineFeeds(t) == Cardinality({i \in 1..Len(t) : Ch(t, i) = LineFeed})

\* One NEWLINE token per line feed of the input, each with the lexeme
\* backslash, n.
NewlinesKept ==
  /\ Count(tokens, IsNewlineToken) = LineFeeds(text)
  /\ \A k \in 1..Len(tokens) :
       IsNewlineToken(tokens[k]) =>
         /\ Len(tokens[k][2]) = 2
         /\ Ch(tokens[k][2], 1) = Backslash
         /\ Ch(tokens[k][2], 2) = Ord("n")

\* C7 as stated: one NEWLINE token per line feed, each with the escaped
\* lexeme, and no space or tab of the input shows in tokens or in errors.
C7_Original ==
  Done => /\ NewlinesKept
          /\ \A k \in 1..Len(tokens) : ~HasChar(tokens[k][2], Blank)
          /\ \A k \in 1..Len(errors) : ~HasChar(LexemeOf(errors[k]), Blank)

\* C7 as amended: one NEWLINE token per line feed, each with the escaped
\* lexeme; the runs of spaces and tabs outside string literals (the SKIP
\* matches) add nothing: tokens and errors hold one entry per other match,
\* no error is about a space or tab, and a space or tab shows in a token only
\* inside a STRING lexeme.
C7_NewlinesAndBlanks ==
  Done => /\ NewlinesKept
          /\ Len(tokens) + Len(errors) = Len(matches) - Count(matches, IsSkip)
          /\ \A p \in Offsets :
               (Ch(text, p + 1) \in Blank /\ ~InsideString(p)) =>
                  \A k \in Covering(p) : IsSkip(matches[k])
          /\ \A k \in 1..Len(tokens) :
               HasChar(tokens[k][2], Blank) => tokens[k][1] = "STRING"
          /\ \A k \in 1..Len(errors) : ~HasChar(LexemeOf(errors[k]), Blank)

\* A line feed with blanks on both sides.
C7_Witness ==
  /\ Done
  /\ \E k \in 2..(Len(matches) - 1) :
       /\ matches[k].kind = "NEWLINE"
       /\ IsSkip(matches[k - 1])
       /\ IsSkip(matches[k + 1])
  /\ Count(tokens, IsNewlineToken) >= 1

\* ----------------------------------------------------------------- C8
\* The lexeme of a token, a NEWLINE token's read back as the line feed.
TokenSource(tok) ==
  IF tok[1] = "NEWLINE" /\ tok[2] = EscapedLineFeed THEN <<LineFeed>> ELSE tok[2]

\* The lexeme of a token: as the token gives it, or as the input had it.
Read(tok, asInput) == IF asInput THEN TokenSource(tok) ELSE tok[2]

\* The lexemes of tokens and of errors, merged into the order of their
\* matches in the input and concatenated, from match k on, with ti tokens and
\* ei errors used up.
RECURSIVE Merged(_, _, _, _)
Merged(k, ti, ei, asInput) ==
  IF k > Len(matches) \/ ti > Len(tokens) \/ ei > Len(errors) THEN <<>>
  ELSE IF IsSkip(matches[k]) THEN Merged(k + 1, ti, ei, asInput)
  ELSE IF IsError(matches[k])
       THEN (IF ei < Len(errors) THEN LexemeOf(errors[ei + 1]) ELSE <<>>)
              \o Merged(k + 1, ti, ei + 1, asInput)
       ELSE (IF ti < Len(tokens) THEN Read(tokens[ti + 1], asInput) ELSE <<>>)
              \o Merged(k + 1, ti + 1, ei, asInput)

\* t without its spaces and tabs.
RECURSIVE WithoutBlanks(_)
WithoutBlanks(t) ==
  IF t = <<>> THEN <<>>
  ELSE (IF Ch(t, 1) \in Blank THEN <<>> ELSE <<Ch(t, 1)>>) \o WithoutBlanks(Tail(t))

\* t from offset p on without the spaces and tabs outside string literals.
RECURSIVE WithoutSkipped(_, _)
WithoutSkipped(t, p) ==
  IF p >= Len(t) THEN <<>>
  ELSE LET n == RuleLen("STRING", t, p)
       IN  IF n > 0 THEN SubSeq(t, p + 1, p + n) \o WithoutSkipped(t, p + n)
           ELSE (IF Ch(t, p + 1) \in Blank THEN <<>> ELSE <<Ch(t, p + 1)>>)
                  \o WithoutSkipped(t, p + 1)

\* tokens and errors each follow the order of their matches in the input.
OrderKept ==
  /\ Len(tokens) = Len(TokenMatches)
  /\ Len(errors) = Len(ErrorMatches)
  /\ \A k \in 1..Len(TokenMatches) :
       /\ tokens[k][1] = TokenMatches[k].kind
       /\ TokenSource(tokens[k]) = Lexeme(text, TokenMatches[k])
  /\ \A k \in 1..Len(ErrorMatches) :
       LexemeOf(errors[k]) = Lexeme(text, ErrorMatches[k])

\* C8 as stated: the lexemes of tokens and errors, merged into input order
\* and concatenated, are the input without its spaces and tabs.
C8_Original ==
  Done => /\ Merged(1, 0, 0, FALSE) = WithoutBlanks(text)
          /\ OrderKept

\* C8 as amended: the lexemes of tokens and errors, merged into input order
\* and concatenated, with the lexeme of each NEWLINE token read back as the
\* line feed it stands for, are the input without the spaces and tabs that
\* lie outside string literals; tokens and errors each keep the order of
\* their matches.
C8_Reconstructs ==
  Done => /\ Merged(1, 0, 0, TRUE) = WithoutSkipped(text, 0)
          /\ OrderKept

\* Tokens and an error around a skipped blank.
C8_Witness ==
  /\ Done
  /\ Len(tokens) >= 2
  /\ Len(errors) >= 1
  /\ Count(matches, IsSkip) >= 1

\* ----------------------------------------------------------------- C9
\* Every match consumes at least one character, so there are never more
\* matches than characters consumed, nor more tokens and errors than matches;
\* and the loop ends only when the input is exhausted.
C9_Bounded ==
  /\ \A k \in 1..Len(matches) : matches[k].end > matches[k].start
  /\ Len(matches) <= Consumed
  /\ Consumed <= Len(text)
  /\ Len(tokens) + Len(errors) <= Len(matches)
  /\ Len(tokens) + Len(errors) <= Len(text)
  /\ (pc = "scan" /\ m # NoMatch) => m.end > m.start /\ m.end <= Len(text)
  /\ (pc = "scan" /\ m = NoMatch) => Consumed = Len(text)

\* A step of the loop either returns or deals with one more match, which
\* ends further on than the one before.
C9_Progress ==
  \/ pc' = "done"
  \/ /\ Len(matches') = Len(matches) + 1
     /\ matches'[Len(matches')].end > Consumed

\* C9: tokenize returns for every input without raising: each loop step
\* consumes at least one character, the scan makes at most len(text) matches,
\* and len(tokens) + len(errors) <= len(text).
C9_Terminates == [](C9_Bounded) /\ [][C9_Progress]_vars

\* A scan that took as many matches as the input has characters, and
\* returned.
C9_Witness ==
  /\ Done
  /\ Len(text) >= 3
  /\ Len(matches) = Len(text)
  /\ Len(tokens) + Len(errors) = Len(text)

\* ---------------------------------------------------------------- C10
\* The maximal runs of ')' outside string literals, as <<offset, length>>.
RparenRuns ==
  {<<p, RunLen(text, p + 1, {RParen})>> :
     p \in {q \in Offsets : /\ Ch(text, q + 1) = RParen
                            /\ RparensBefore(text, q) = 0
                            /\ ~InsideString(q)}}

IsRparenToken(tok) == tok[1] = "RPAREN"

\* C10: a maximal run of n ')' outside a string literal is scanned as n \div 2
\* "))" errors, pair by pair from the left, and one RPAREN token for the last
\* ')' when n is odd; no error lexeme spans three or more ')', and a ')'
\* standing alone is an RPAREN token, never an error.
C10_PairsOnly ==
  Done =>
    /\ \A r \in RparenRuns :
         /\ \A j \in 0..((r[2] \div 2) - 1) :
              [kind |-> "BADSEQ", start |-> r[1] + 2 * j, end |-> r[1] + 2 * j + 2]
                \in {matches[k] : k \in 1..Len(matches)}
         /\ r[2] % 2 = 1 =>
              [kind |-> "RPAREN", start |-> r[1] + r[2] - 1, end |-> r[1] + r[2]]
                \in {matches[k] : k \in 1..Len(matches)}
    /\ Count(errors, IsPairMessage) = Cardinality(ScannedPairs)
    /\ Count(tokens, IsRparenToken) = Cardinality({r \in RparenRuns : r[2] % 2 = 1})
    /\ \A k \in 1..Len(tokens) : IsRparenToken(tokens[k]) => tokens[k][2] = <<RParen>>
    /\ \A k \in 1..Len(errors) :
         /\ ~LitAt(LexemeOf(errors[k]), 0, <<RParen, RParen, RParen>>)
         /\ LexemeOf(errors[k]) # <<RParen>>

\* A run of three ')': one error for the pair, one RPAREN token for the third.
C10_Witness ==
  /\ Done
  /\ \E r \in RparenRuns : r[2] = 3
  /\ Count(errors, IsPairMessage) = 1
  /\ Count(tokens, IsRparenToken) = 1

====
